---- MODULE Spec2Model ----
(***************************************************************************)
(* MicroBitFileSystem: the legacy-named file system facade of              *)
(* codal-microbit-v2.  Every member function delegates to the engine       *)
(* singleton CodalFS::defaultFileSystem.  The facade is modelled from      *)
(* source/MicroBitFileSystem.cpp; the engine, whose implementation is not  *)
(* part of the facade's sources, is modelled from the contracts the        *)
(* facade's documentation comments state for it.                           *)
(***************************************************************************)
EXTENDS Integers, Sequences, FiniteSets, TLC

\* ------------------------------------------------------------------ bounds
MaxCalls == 2
MaxInstances == 2
MaxHandles == 2
MaxFileSize == 2

\* --------------------------------------------------- constants of the API
MICROBIT_OK == 0
MICROBIT_INVALID_PARAMETER == -1001
MICROBIT_NOT_SUPPORTED == -1002
MICROBIT_CANCELLED == -1004
MICROBIT_NO_RESOURCES == -1005

MB_READ == 1
MB_WRITE == 2
MB_CREAT == 4

MB_SEEK_SET == 1
MB_SEEK_END == 2
MB_SEEK_CUR == 4

NULL == -1

\* ----------------------------------------------------------- input domains
FileNames == {"a.txt", "b.txt"}
DirNames == {"/d", ""}
OpenFlags == {MB_READ, MB_READ + MB_WRITE + MB_CREAT}
SeekFlags == {MB_SEEK_SET, MB_SEEK_END}
Offsets == {-1, 0}
Sizes == {1, 2}
Buffers == {"buf"}
Handles == 0 .. (MaxHandles - 1)
Fds == {0, 1}
FlashStarts == {1}
FlashPages == {2}
Callers == {1, 2}

HasFlag(flags, bit) == (flags \div bit) % 2 = 1

Min(a, b) == IF a < b THEN a ELSE b
Max(a, b) == IF a < b THEN b ELSE a

\* ------------------------------------------------- the engine (CodalFS)
NoFD == [file |-> "", flags |-> 0, pos |-> 0]

CodalFS_new ==
    [initCalls |-> 0,
     fd |-> [h \in Handles |-> NoFD],
     size |-> [f \in FileNames |-> -1],
     dirs |-> {},
     calls |-> << >>]

Logged(e, op, args, r) ==
    [fs |-> [e EXCEPT !.calls = Append(@, [op |-> op, args |-> args, ret |-> r])],
     ret |-> r]

IsOpen(e, fd) == fd \in Handles /\ e.fd[fd] # NoFD

CodalFS_init(e) ==
    Logged([e EXCEPT !.initCalls = @ + 1], "init", << >>, MICROBIT_OK)

CodalFS_open(e, filename, flags) ==
    LET free == {h \in Handles : e.fd[h] = NoFD}
        h0 == CHOOSE h \in free : \A k \in free : h <= k
        args == <<filename, flags>>
    IN  IF e.initCalls = 0
          THEN Logged(e, "open", args, MICROBIT_NOT_SUPPORTED)
        ELSE IF filename \notin FileNames
          THEN Logged(e, "open", args, MICROBIT_INVALID_PARAMETER)
        ELSE IF e.size[filename] < 0 /\ ~HasFlag(flags, MB_CREAT)
          THEN Logged(e, "open", args, MICROBIT_INVALID_PARAMETER)
        ELSE IF free = {}
          THEN Logged(e, "open", args, MICROBIT_NO_RESOURCES)
        ELSE Logged([e EXCEPT
                       !.fd[h0] = [file |-> filename, flags |-> flags, pos |-> 0],
                       !.size[filename] = Max(@, 0)],
                    "open", args, h0)

CodalFS_flush(e, fd) ==
    IF e.initCalls = 0
      THEN Logged(e, "flush", <<fd>>, MICROBIT_NOT_SUPPORTED)
    ELSE IF ~IsOpen(e, fd)
      THEN Logged(e, "flush", <<fd>>, MICROBIT_INVALID_PARAMETER)
    ELSE Logged(e, "flush", <<fd>>, MICROBIT_OK)

CodalFS_close(e, fd) ==
    IF e.initCalls = 0
      THEN Logged(e, "close", <<fd>>, MICROBIT_NOT_SUPPORTED)
    ELSE IF ~IsOpen(e, fd)
      THEN Logged(e, "close", <<fd>>, MICROBIT_INVALID_PARAMETER)
    ELSE Logged([e EXCEPT !.fd[fd] = NoFD], "close", <<fd>>, MICROBIT_OK)

CodalFS_seek(e, fd, offset, flags) ==
    LET args == <<fd, offset, flags>>
        len == e.size[e.fd[fd].file]
        target == IF flags = MB_SEEK_SET THEN offset
                  ELSE IF flags = MB_SEEK_END THEN len + offset
                  ELSE e.fd[fd].pos + offset
    IN  IF e.initCalls = 0
          THEN Logged(e, "seek", args, MICROBIT_NOT_SUPPORTED)
        ELSE IF ~IsOpen(e, fd) \/ flags \notin {MB_SEEK_SET, MB_SEEK_END, MB_SEEK_CUR}
          THEN Logged(e, "seek", args, MICROBIT_INVALID_PARAMETER)
        ELSE IF target < 0 \/ target > len
          THEN Logged(e, "seek", args, MICROBIT_INVALID_PARAMETER)
        ELSE Logged([e EXCEPT !.fd[fd].pos = target], "seek", args, target)

CodalFS_read(e, fd, buffer, size) ==
    LET args == <<fd, buffer, size>>
        n == Min(size, e.size[e.fd[fd].file] - e.fd[fd].pos)
    IN  IF ~IsOpen(e, fd)
          THEN Logged(e, "read", args, MICROBIT_INVALID_PARAMETER)
        ELSE IF e.initCalls = 0 \/ ~HasFlag(e.fd[fd].flags, MB_READ)
          THEN Logged(e, "read", args, MICROBIT_NOT_SUPPORTED)
        ELSE Logged([e EXCEPT !.fd[fd].pos = @ + n], "read", args, n)

CodalFS_write(e, fd, buffer, size) ==
    LET args == <<fd, buffer, size>>
        end == e.fd[fd].pos + size
    IN  IF ~IsOpen(e, fd)
          THEN Logged(e, "write", args, MICROBIT_INVALID_PARAMETER)
        ELSE IF e.initCalls = 0 \/ ~HasFlag(e.fd[fd].flags, MB_WRITE)
                \/ end > MaxFileSize
          THEN Logged(e, "write", args, MICROBIT_NO_RESOURCES)
        ELSE Logged([e EXCEPT !.fd[fd].pos = end,
                              !.size[e.fd[fd].file] = Max(@, end)],
                    "write", args, size)

CodalFS_remove(e, filename) ==
    IF filename \notin FileNames \/ e.size[filename] < 0
      THEN Logged(e, "remove", <<filename>>, MICROBIT_INVALID_PARAMETER)
    ELSE IF \E h \in Handles : e.fd[h].file = filename
      THEN Logged(e, "remove", <<filename>>, MICROBIT_CANCELLED)
    ELSE Logged([e EXCEPT !.size[filename] = -1], "remove", <<filename>>, MICROBIT_OK)

CodalFS_createDirectory(e, name) ==
    IF name = ""
      THEN Logged(e, "createDirectory", <<name>>, MICROBIT_INVALID_PARAMETER)
    ELSE Logged([e EXCEPT !.dirs = @ \cup {name}], "createDirectory", <<name>>, MICROBIT_OK)

\* ------------------------------------------- the facade (MicroBitFileSystem)
VARIABLES
    codalFS,            \* the engine singleton CodalFS::defaultFileSystem
    defaultFileSystem,  \* MicroBitFileSystem::defaultFileSystem (NULL before module load)
    instances,          \* the facade instances constructed so far
    facadeCalls,        \* history: the calls made on the facade and what they returned
    lastThis,           \* history: the instance the last call was issued through
    openedVia,          \* history: the instance that opened each open handle
    shadow,             \* the same calls, each issued through the default instance
    pc,                 \* concurrent callers: where each caller is
    pending             \* concurrent callers: the call each caller is making

vars == <<codalFS, defaultFileSystem, instances, facadeCalls, lastThis, openedVia,
          shadow, pc, pending>>

DefaultInstance == 0

\* The facade sees the engine singleton and its own static pointer.
World == [codalFS |-> codalFS, defaultFileSystem |-> defaultFileSystem]

\* return CodalFS::defaultFileSystem->op(...): the engine's new state and result.
Delegated(w, r) == [w |-> [w EXCEPT !.codalFS = r.fs], ret |-> r.ret]

\* Variants of the member functions, each with one slip.
MicroBitFileSystem_setsDefault(this, w, flashStart, flashPages) ==
    [w |-> [w EXCEPT !.codalFS = CodalFS_init(w.codalFS).fs,
                     !.defaultFileSystem = this],
     ret |-> MICROBIT_OK]

MicroBitFileSystem_noInit(this, w, flashStart, flashPages) ==
    [w |-> w, ret |-> MICROBIT_OK]

MicroBitFileSystem_initOnce(this, w, flashStart, flashPages) ==
    IF w.codalFS.initCalls = 0
      THEN [w |-> [w EXCEPT !.codalFS = CodalFS_init(w.codalFS).fs], ret |-> MICROBIT_OK]
    ELSE [w |-> w, ret |-> MICROBIT_OK]

read_returnsSize(this, w, fd, buffer, size) ==
    [Delegated(w, CodalFS_read(w.codalFS, fd, buffer, size)) EXCEPT !.ret = size]

seek_swapsArguments(this, w, fd, offset, flags) ==
    Delegated(w, CodalFS_seek(w.codalFS, fd, flags, offset))

remove_callsCreateDirectory(this, w, filename) ==
    Delegated(w, CodalFS_createDirectory(w.codalFS, filename))

write_hidesError(this, w, fd, buffer, size) ==
    LET r == Delegated(w, CodalFS_write(w.codalFS, fd, buffer, size))
    IN  IF r.ret < 0 THEN [r EXCEPT !.ret = 0] ELSE r

close_onlyDefault(this, w, fd) ==
    IF this # w.defaultFileSystem
      THEN [w |-> w, ret |-> MICROBIT_NOT_SUPPORTED]
    ELSE Delegated(w, CodalFS_close(w.codalFS, fd))

MicroBitFileSystem(this, w, flashStart, flashPages) ==
    [w |-> [w EXCEPT !.codalFS = CodalFS_init(w.codalFS).fs], ret |-> MICROBIT_OK]

createDirectory(this, w, name) ==
    Delegated(w, CodalFS_createDirectory(w.codalFS, name))

open(this, w, filename, flags) ==
    Delegated(w, CodalFS_open(w.codalFS, filename, flags))

flush(this, w, fd) ==
    Delegated(w, CodalFS_flush(w.codalFS, fd))

close(this, w, fd) ==
    Delegated(w, CodalFS_close(w.codalFS, fd))

seek(this, w, fd, offset, flags) ==
    Delegated(w, CodalFS_seek(w.codalFS, fd, offset, flags))

read(this, w, fd, buffer, size) ==
    Delegated(w, CodalFS_read(w.codalFS, fd, buffer, size))

write(this, w, fd, buffer, size) ==
    Delegated(w, CodalFS_write(w.codalFS, fd, buffer, size))

remove(this, w, filename) ==
    Delegated(w, CodalFS_remove(w.codalFS, filename))

\* ------------------------------------------------------------ the program
Idle == [c \in Callers |-> "idle"]
NoCall == [c \in Callers |-> [this |-> NULL, op |-> "", args |-> << >>]]

Init ==
    /\ codalFS = CodalFS_new
    /\ defaultFileSystem = NULL
    /\ instances = {}
    /\ facadeCalls = << >>
    /\ lastThis = NULL
    /\ openedVia = [h \in Handles |-> NULL]
    /\ shadow = [w |-> [codalFS |-> CodalFS_new, defaultFileSystem |-> NULL],
                 ret |-> MICROBIT_OK]
    /\ pc = Idle
    /\ pending = NoCall

NumFileCalls == Len(facadeCalls) - Cardinality(instances)

\* A facade call returned r; sh is the same call issued through the default instance.
Returned(this, op, args, r, sh) ==
    /\ codalFS' = r.w.codalFS
    /\ defaultFileSystem' = r.w.defaultFileSystem
    /\ facadeCalls' = Append(facadeCalls, [op |-> op, args |-> args, ret |-> r.ret])
    /\ lastThis' = this
    /\ openedVia' = IF op = "open" /\ r.ret \in Handles
                       THEN [openedVia EXCEPT ![r.ret] = this]
                     ELSE IF op = "close" /\ r.ret = MICROBIT_OK /\ args[1] \in Handles
                       THEN [openedVia EXCEPT ![args[1]] = NULL]
                     ELSE openedVia
    /\ shadow' = sh

\* Module load: defaultFileSystem = new MicroBitFileSystem(0, 0).
StaticInit ==
    /\ defaultFileSystem = NULL
    /\ LET r == MicroBitFileSystem(DefaultInstance, World, 0, 0)
           s == MicroBitFileSystem(DefaultInstance, shadow.w, 0, 0)
       IN  /\ codalFS' = r.w.codalFS
           /\ defaultFileSystem' = DefaultInstance
           /\ facadeCalls' = Append(facadeCalls,
                  [op |-> "MicroBitFileSystem", args |-> <<0, 0>>, ret |-> r.ret])
           /\ lastThis' = DefaultInstance
           /\ shadow' = [s EXCEPT !.w.defaultFileSystem = DefaultInstance]
    /\ instances' = {DefaultInstance}
    /\ UNCHANGED <<openedVia, pc, pending>>

CanCall(this) ==
    /\ defaultFileSystem # NULL
    /\ this \in instances
    /\ NumFileCalls < MaxCalls

Construct ==
    /\ defaultFileSystem # NULL
    /\ Cardinality(instances) < MaxInstances
    /\ \E flashStart \in FlashStarts, flashPages \in FlashPages :
         LET this == Cardinality(instances)
         IN  /\ Returned(this, "MicroBitFileSystem", <<flashStart, flashPages>>,
                         MicroBitFileSystem(this, World, flashStart, flashPages),
                         MicroBitFileSystem(this, shadow.w, flashStart, flashPages))
             /\ instances' = instances \cup {this}
             /\ UNCHANGED <<pc, pending>>

CreateDirectory ==
    \E this \in instances, name \in DirNames :
        /\ CanCall(this)
        /\ Returned(this, "createDirectory", <<name>>,
                    createDirectory(this, World, name),
                    createDirectory(DefaultInstance, shadow.w, name))
        /\ UNCHANGED <<instances, pc, pending>>

Open ==
    \E this \in instances, filename \in FileNames, flags \in OpenFlags :
        /\ CanCall(this)
        /\ Returned(this, "open", <<filename, flags>>,
                    open(this, World, filename, flags),
                    open(DefaultInstance, shadow.w, filename, flags))
        /\ UNCHANGED <<instances, pc, pending>>

Flush ==
    \E this \in instances, fd \in Fds :
        /\ CanCall(this)
        /\ Returned(this, "flush", <<fd>>,
                    flush(this, World, fd),
                    flush(DefaultInstance, shadow.w, fd))
        /\ UNCHANGED <<instances, pc, pending>>

Close ==
    \E this \in instances, fd \in Fds :
        /\ CanCall(this)
        /\ Returned(this, "close", <<fd>>,
                    close(this, World, fd),
                    close(DefaultInstance, shadow.w, fd))
        /\ UNCHANGED <<instances, pc, pending>>

Seek ==
    \E this \in instances, fd \in Fds, offset \in Offsets, flags \in SeekFlags :
        /\ CanCall(this)
        /\ Returned(this, "seek", <<fd, offset, flags>>,
                    seek(this, World, fd, offset, flags),
                    seek(DefaultInstance, shadow.w, fd, offset, flags))
        /\ UNCHANGED <<instances, pc, pending>>

Read ==
    \E this \in instances, fd \in Fds, buffer \in Buffers, size \in Sizes :
        /\ CanCall(this)
        /\ Returned(this, "read", <<fd, buffer, size>>,
                    read(this, World, fd, buffer, size),
                    read(DefaultInstance, shadow.w, fd, buffer, size))
        /\ UNCHANGED <<instances, pc, pending>>

Write ==
    \E this \in instances, fd \in Fds, buffer \in Buffers, size \in Sizes :
        /\ CanCall(this)
        /\ Returned(this, "write", <<fd, buffer, size>>,
                    write(this, World, fd, buffer, size),
                    write(DefaultInstance, shadow.w, fd, buffer, size))
        /\ UNCHANGED <<instances, pc, pending>>

Remove ==
    \E this \in instances, filename \in FileNames :
        /\ CanCall(this)
        /\ Returned(this, "remove", <<filename>>,
                    remove(this, World, filename),
                    remove(DefaultInstance, shadow.w, filename))
        /\ UNCHANGED <<instances, pc, pending>>

Next ==
    \/ StaticInit
    \/ Construct
    \/ CreateDirectory
    \/ Open
    \/ Flush
    \/ Close
    \/ Seek
    \/ Read
    \/ Write
    \/ Remove

Spec == Init /\ [][Next]_vars

\* ------------------------------------------------ concurrent callers
\* The calls the concurrent callers make.
ConcCalls ==
    {[op |-> "open", args |-> <<"a.txt", MB_READ + MB_WRITE + MB_CREAT>>],
     [op |-> "write", args |-> <<0, "buf", 1>>],
     [op |-> "read", args |-> <<0, "buf", 1>>],
     [op |-> "close", args |-> <<0>>]}

\* The member function a call names, applied to its arguments.
Invoke(this, w, c) ==
    CASE c.op = "createDirectory" -> createDirectory(this, w, c.args[1])
      [] c.op = "open" -> open(this, w, c.args[1], c.args[2])
      [] c.op = "flush" -> flush(this, w, c.args[1])
      [] c.op = "close" -> close(this, w, c.args[1])
      [] c.op = "seek" -> seek(this, w, c.args[1], c.args[2], c.args[3])
      [] c.op = "read" -> read(this, w, c.args[1], c.args[2], c.args[3])
      [] c.op = "write" -> write(this, w, c.args[1], c.args[2], c.args[3])
      [] c.op = "remove" -> remove(this, w, c.args[1])

\* The state once the module is loaded: the default instance is constructed.
InitConc ==
    LET w0 == [codalFS |-> CodalFS_new, defaultFileSystem |-> NULL]
        r == MicroBitFileSystem(DefaultInstance, w0, 0, 0)
    IN  /\ codalFS = r.w.codalFS
        /\ defaultFileSystem = DefaultInstance
        /\ instances = {DefaultInstance}
        /\ facadeCalls = <<[op |-> "MicroBitFileSystem", args |-> <<0, 0>>, ret |-> r.ret]>>
        /\ lastThis = DefaultInstance
        /\ openedVia = [h \in Handles |-> NULL]
        /\ shadow = [r EXCEPT !.w.defaultFileSystem = DefaultInstance]
        /\ pc = Idle
        /\ pending = NoCall

\* A caller enters a member function of the facade.
CCall(c) ==
    /\ pc[c] = "idle"
    /\ NumFileCalls + Cardinality({d \in Callers : pc[d] # "idle"}) < MaxCalls
    /\ \E call \in ConcCalls :
         pending' = [pending EXCEPT ![c] =
                       [this |-> DefaultInstance, op |-> call.op, args |-> call.args]]
    /\ pc' = [pc EXCEPT ![c] = "facade"]
    /\ UNCHANGED <<codalFS, defaultFileSystem, instances, facadeCalls, lastThis,
                   openedVia, shadow>>

\* A variant that serialises the callers on a lock around the engine.
CDelegate_locked(c) ==
    /\ pc[c] = "facade"
    /\ \A d \in Callers \ {c} : pc[d] # "engine"
    /\ pc' = [pc EXCEPT ![c] = "engine"]
    /\ UNCHANGED <<codalFS, defaultFileSystem, instances, facadeCalls, lastThis,
                   openedVia, shadow, pending>>

\* The member function reaches its only statement, the call of the engine:
\* nothing in the facade waits for another caller.
CDelegate(c) ==
    /\ pc[c] = "facade"
    /\ pc' = [pc EXCEPT ![c] = "engine"]
    /\ UNCHANGED <<codalFS, defaultFileSystem, instances, facadeCalls, lastThis,
                   openedVia, shadow, pending>>

\* The engine performs the operation and the member function returns its result.
CReturn(c) ==
    /\ pc[c] = "engine"
    /\ Returned(pending[c].this, pending[c].op, pending[c].args,
                Invoke(pending[c].this, World, pending[c]),
                Invoke(DefaultInstance, shadow.w, pending[c]))
    /\ pc' = [pc EXCEPT ![c] = "idle"]
    /\ pending' = [pending EXCEPT ![c] = [this |-> NULL, op |-> "", args |-> << >>]]
    /\ UNCHANGED instances

NextConc ==
    \E c \in Callers :
        \/ CCall(c)
        \/ CDelegate(c)
        \/ CReturn(c)

SpecConc == InitConc /\ [][NextConc]_vars

\* -------------------------------------------------- the engine used directly
FileOps == {"open", "flush", "close", "seek", "read", "write", "remove", "createDirectory"}

\* What the engine does when the call c is made on it directly (a construction
\* of the facade is the engine's init()).
DirectStep(e, c) ==
    CASE c.op = "MicroBitFileSystem" -> CodalFS_init(e)
      [] c.op = "createDirectory" -> CodalFS_createDirectory(e, c.args[1])
      [] c.op = "open" -> CodalFS_open(e, c.args[1], c.args[2])
      [] c.op = "flush" -> CodalFS_flush(e, c.args[1])
      [] c.op = "close" -> CodalFS_close(e, c.args[1])
      [] c.op = "seek" -> CodalFS_seek(e, c.args[1], c.args[2], c.args[3])
      [] c.op = "read" -> CodalFS_read(e, c.args[1], c.args[2], c.args[3])
      [] c.op = "write" -> CodalFS_write(e, c.args[1], c.args[2], c.args[3])
      [] c.op = "remove" -> CodalFS_remove(e, c.args[1])

RECURSIVE DirectRun(_)
\* The engine's state after the calls cs made on it directly, from a new engine.
DirectRun(cs) ==
    IF cs = << >> THEN CodalFS_new
    ELSE DirectStep(DirectRun(SubSeq(cs, 1, Len(cs) - 1)), cs[Len(cs)]).fs

\* The engine's state before the i-th call of the facade's history.
Before(i) == DirectRun(SubSeq(facadeCalls, 1, i - 1))

FileCallIndexes == {i \in 1 .. Len(facadeCalls) : facadeCalls[i].op \in FileOps}

EngineCalls == codalFS.calls

LastCall == facadeCalls[Len(facadeCalls)]

\* What the two documentation comments of close() call a success.
HeaderCloseSuccess(r) == r # 0
ImplCloseSuccess(r) == r = MICROBIT_OK

\* ------------------------------------------------------------------ claims

\* C1: every one of the eight file operations returns the value the engine's
\* same-named operation returns for the same arguments in the same engine state.
C1_ReturnIdentity ==
    \A i \in FileCallIndexes :
        facadeCalls[i].ret = DirectStep(Before(i), facadeCalls[i]).ret

C1_Witness ==
    \E i \in FileCallIndexes :
        /\ facadeCalls[i].op = "write"
        /\ facadeCalls[i].ret = 2
        /\ \E j \in 1 .. (i - 1) : facadeCalls[j].op = "open" /\ facadeCalls[j].ret = 0

\* C2: every file operation of the facade makes exactly one engine call, to the
\* same-named operation with the same arguments in the same positions, and changes
\* nothing else: the engine's calls are the facade's calls, in order, and the engine
\* is in the state those calls made directly on it leave it in.
C2_SingleDelegatedCall ==
    /\ Len(EngineCalls) = Len(facadeCalls)
    /\ \A i \in FileCallIndexes :
         /\ EngineCalls[i].op = facadeCalls[i].op
         /\ EngineCalls[i].args = facadeCalls[i].args
    /\ codalFS = DirectRun(facadeCalls)

C2_Witness ==
    /\ Len(facadeCalls) >= 3
    /\ LastCall.op = "seek"
    /\ LastCall.args = <<0, 0, MB_SEEK_SET>>
    /\ LastCall.ret = 0
    /\ EngineCalls[Len(EngineCalls)].args = <<0, 0, MB_SEEK_SET>>

\* C3 as stated: all nine operations, the constructor included, hand the engine
\* the arguments they were given.
C3_AllNineForwardArguments ==
    \A i \in 1 .. Len(facadeCalls) :
        /\ i <= Len(EngineCalls)
        /\ EngineCalls[i].args = facadeCalls[i].args

\* C3 as amended: the eight file operations hand the engine the arguments they
\* were given, to the same-named operation; the constructor calls the engine's
\* init() with no argument, so flashStart and flashPages do not reach the engine.
C3_EightForwardConstructorDrops ==
    \A i \in 1 .. Len(facadeCalls) :
        /\ i <= Len(EngineCalls)
        /\ IF facadeCalls[i].op = "MicroBitFileSystem"
             THEN EngineCalls[i].op = "init" /\ EngineCalls[i].args = << >>
           ELSE /\ EngineCalls[i].op = facadeCalls[i].op
                /\ EngineCalls[i].args = facadeCalls[i].args

C3_Witness ==
    \E i, j \in 1 .. Len(facadeCalls) :
        /\ facadeCalls[i].op = "MicroBitFileSystem"
        /\ facadeCalls[i].args = <<1, 2>>
        /\ EngineCalls[i].args = << >>
        /\ facadeCalls[j].op = "remove"
        /\ EngineCalls[j].op = "remove"

\* C4: when the engine returns a negative code the facade returns that code, and
\* has made no further engine call.
C4_ErrorsPassThrough ==
    /\ Len(EngineCalls) = Len(facadeCalls)
    /\ \A i \in FileCallIndexes :
         EngineCalls[i].ret < 0 => facadeCalls[i].ret = EngineCalls[i].ret

C4_Witness ==
    \E i \in FileCallIndexes :
        /\ facadeCalls[i].op = "write"
        /\ EngineCalls[i].ret = MICROBIT_INVALID_PARAMETER
        /\ facadeCalls[i].ret = MICROBIT_INVALID_PARAMETER

\* C5: MicroBitFileSystem::defaultFileSystem is NULL until the module is loaded
\* and the default instance from then on: no operation of the facade, the
\* construction of further instances included, writes it.
C5_DefaultPointerFixed ==
    IF instances = {} THEN defaultFileSystem = NULL
    ELSE defaultFileSystem = DefaultInstance

C5_Witness ==
    /\ Cardinality(instances) >= 2
    /\ lastThis # DefaultInstance
    /\ LastCall.op \in FileOps
    /\ defaultFileSystem = DefaultInstance

\* C6: the facade never makes a caller wait: a caller that has entered a member
\* function can always go on to the engine, wherever the other caller is.
C6_NeverBlocks ==
    \A c \in Callers : pc[c] = "facade" => ENABLED CDelegate(c)

C6_Witness ==
    /\ pc[1] = "engine" /\ pending[1].op = "read"
    /\ pc[2] = "engine" /\ pending[2].op = "write"

\* C7: close(fd) returns MICROBIT_OK for an open handle, which open() may then
\* hand out again, and MICROBIT_INVALID_PARAMETER for a handle that is not open;
\* and the value a successful close returns is a success both by the header's
\* "non-zero on success" and by the implementation's "MICROBIT_OK on success".
C7_CloseContract ==
    \A i \in FileCallIndexes :
        facadeCalls[i].op = "close" =>
            LET fd == facadeCalls[i].args[1]
                r == facadeCalls[i].ret
            IN  /\ IsOpen(Before(i), fd) =>
                     /\ r = MICROBIT_OK
                     /\ ~IsOpen(Before(i + 1), fd)
                     /\ ImplCloseSuccess(r)
                     /\ HeaderCloseSuccess(r)
                /\ ~IsOpen(Before(i), fd) => r = MICROBIT_INVALID_PARAMETER

\* C8: the engine's init() is called before any other engine operation.
C8_InitPrecedesUse ==
    \A i \in 1 .. Len(EngineCalls) :
        EngineCalls[i].op # "init" =>
            \E j \in 1 .. (i - 1) : EngineCalls[j].op = "init"

C8_Witness ==
    /\ Len(EngineCalls) >= 2
    /\ EngineCalls[1].op = "init"
    /\ EngineCalls[2].op = "open"
    /\ EngineCalls[2].ret = 0

\* C9: each construction of a facade instance calls init() once and makes no
\* other engine call: init() has been called as often as instances were made.
C9_InitOncePerConstruction ==
    /\ codalFS.initCalls = Cardinality(instances)
    /\ Cardinality({i \in 1 .. Len(EngineCalls) : EngineCalls[i].op = "init"})
         = Cardinality(instances)
    /\ Len(EngineCalls) = Len(facadeCalls)
    /\ \A i \in 1 .. Len(facadeCalls) :
         facadeCalls[i].op = "MicroBitFileSystem" <=> EngineCalls[i].op = "init"

C9_Witness ==
    /\ codalFS.initCalls = 2
    /\ LastCall.op = "MicroBitFileSystem"
    /\ \E h \in Handles : IsOpen(codalFS, h)

\* C10: the results and the engine's state are those of the same calls issued
\* through the default instance, whichever instance each call went through.
C10_InstancesInterchangeable ==
    /\ shadow.w.codalFS = codalFS
    /\ facadeCalls # << >> => shadow.ret = LastCall.ret

C10_Witness ==
    /\ lastThis \in instances \ {DefaultInstance}
    /\ LastCall.op = "write"
    /\ LastCall.ret = 1
    /\ openedVia[LastCall.args[1]] = DefaultInstance

====
